---------------------------- MODULE Spec2Model ----------------------------
(***************************************************************************)
(* Load generation, batch driving and resource monitoring of the Reframe   *)
(* benchmark scripts.                                                      *)
(*                                                                         *)
(*   Spec     the request run of one script: fixed_benchmark.py            *)
(*            (FixedBenchmark.run_benchmark / run_batch),                  *)
(*            investigate_degradation.py (investigate_degradation /        *)
(*            run_wave), diagnose_performance.py (test_throughput_scaling),*)
(*            enhanced_benchmark.py, optimized_benchmark.py                *)
(*            (run_benchmark_test) and scripts/run-benchmark.py (run_test).*)
(*   SpecMon  the CPUMonitor of enhanced_benchmark.py and                  *)
(*            optimized_benchmark.py: the caller's start()/stop() and the  *)
(*            sampling thread.                                             *)
(*   SpecExec the request executor on one request: make_request /          *)
(*            process_request of every script, and the slice timeout of    *)
(*            enhanced_benchmark.py.                                        *)
(*   SpecStats the statistics of a finished batch or run: run_batch,       *)
(*            run_wave, run_benchmark_test (both) and run_test, with       *)
(*            get_percentile.                                               *)
(*   SpecAnalysis the analysis across batches: run_benchmark's overall     *)
(*            metrics and degradation check, and analyze_degradation.      *)
(*   SpecSweep the configuration sweep of main(): successive calls of     *)
(*            run_benchmark_test, each with its own CPUMonitor.            *)
(*   SpecParse parse_benchmark_output of scripts/benchmark-wrapper.py,     *)
(*            line by line.                                                *)
(*                                                                         *)
(* Request volumes are scaled down: the sizes 5000 (batch), 500 (chunk),   *)
(* 1000 (wave) and 10 (warm-up) of the scripts are stood for by the small  *)
(* bounds below, which keep the order batch size > chunk size > 1.         *)
(* Wall-clock time is not a variable: a request's elapsed time is drawn    *)
(* when it completes, and the measured duration of a batch or run is drawn *)
(* as total_time where the statistics start.  Quotients of floats are kept *)
(* exact, as pairs of integers; float rounding is not modelled.            *)
(***************************************************************************)
EXTENDS Integers, Sequences, FiniteSets, TLC

\* ------------------------------------------------------------- bounds
\* largest total_requests / num_requests of a run
MaxRequests == 4
\* largest concurrency bound
MaxConcurrent == 2
\* stands for batch_size = 5000 (fixed_benchmark.py:208)
BatchSize == 3
\* stands for the chunk cap 500 (fixed_benchmark.py:131)
ChunkCap == 2
\* largest num_waves, and stands for requests_per_wave = 1000
MaxWaves == 2
MaxPerWave == 2
\* stands for the 10 sequential warm-up requests
WarmupRequests == 1
\* largest elapsed time of one request, in clock ticks (>= 1)
MaxLat == 1

\* most samples one monitor takes, and the largest cpu / memory reading
MaxSamples == 2
MaxCpu == 2
MaxMem == 2

\* largest latency of one request in the statistics, in ms, and the largest
\* measured duration of a batch or run, in s
MaxLatencyMs == 2
MaxDuration == 2

\* most batch / wave results one analysis reads
MaxMetrics == 5

\* ------------------------------------------------- program constants
\* thresholds of analyze_degradation: degradation in percent, memory growth
\* in MB, connection growth, TIME_WAIT count, mid-run drop in percent (0.1)
DegradationPct == 20
MemoryGrowthMB == 100
ConnectionGrowth == 100
TimeWaitCount == 1000
GradualDropPct == 10
\* num_workers = min(concurrent, 100)
MaxWorkers == 100
\* two warm-up requests per worker
WarmupPerWorker == 2
\* status codes a response may carry
HTTP_OK == 200

Min(a, b) == IF a < b THEN a ELSE b

Scripts == {"fixed", "wave", "scaling", "enhanced", "runtest", "optimized"}
\* scripts that admit requests through asyncio.Semaphore(concurrent)
SemaphoreScripts == {"fixed", "wave", "scaling", "optimized"}
\* scripts that gather one slice of `concurrent` requests at a time
SlicedScripts == {"enhanced", "runtest"}
\* scripts that run several batches/waves, each with its own client session
BatchedScripts == {"fixed", "wave", "scaling"}
\* scripts whose gather is called with return_exceptions=True
ReturnExceptionsScripts == {"fixed", "enhanced", "optimized"}

\* the concurrency levels of test_throughput_scaling, [1, 2, 4, ...], cut
\* to those within MaxConcurrent
concurrency_levels == SelectSeq(<<1, 2, 4>>, LAMBDA c : c <= MaxConcurrent)

\* what the remote call of one request does
Transports == {"response", "timeout", "error"}
Statuses == {200, 204, 500}

VARIABLES
    script,          \* which script runs
    total_requests,  \* requested volume of the run (per wave for "wave")
    concurrent,      \* the concurrency bound C
    num_batches,     \* batches / waves / levels of the run
    pc,              \* position of the driver coroutine
    batch_num,       \* current batch (1-based)
    num_requests,    \* requests of the current batch
    i,               \* offset of the current chunk / slice in the batch
    tasks,           \* the request tasks of the gather in progress
    semaphore,       \* value of the asyncio.Semaphore
    sessions,        \* the client sessions that are open
    warmup_left,     \* sequential warm-up requests still to issue
    latencies,       \* accumulators of the current batch / run
    successes,
    failures,
    all_results,     \* one record per finished batch
    progress,        \* per batch: requests started/completed, closed, cooled
    \* ---- CPUMonitor
    monitor_kind,    \* "enhanced" or "optimized" CPUMonitor
    monitoring,      \* self.monitoring
    thread,          \* position of the sampling thread
    cpu_samples,
    memory_samples,
    sample,          \* the sample the thread is holding
    stop_pc,         \* position of the caller in start()/stop()
    summary,         \* what stop() returned
    mon_hist,        \* what happened: failures, appends after the summary
    \* ---- statistics and analysis
    total_time,      \* measured duration of the batch / run
    report,          \* the returned result dict, or the exception raised
    call,            \* what the remote call of the request under study does
    \* ---- configuration sweep
    test_number,     \* tests of the sweep begun so far
    old_threads,     \* sampling threads of the earlier tests' monitors
    \* ---- parse_benchmark_output
    lines,           \* the lines of the output being parsed
    line_no,         \* the line the loop is at (1-based)
    current_test,    \* the test being collected, or None
    parsed           \* `results`: the records emitted so far

drvVars == <<script, total_requests, concurrent, num_batches, pc, batch_num,
             num_requests, i, tasks, semaphore, sessions, warmup_left,
             latencies, successes, failures, all_results, progress>>
monVars == <<monitor_kind, monitoring, thread, cpu_samples, memory_samples,
             sample, stop_pc, summary, mon_hist>>
statVars == <<total_time, report, call>>
sweepVars == <<test_number, old_threads>>
parseVars == <<lines, line_no, current_test, parsed>>
vars == <<drvVars, monVars, statVars, sweepVars, parseVars>>


\* ===================================================== request executor
NoResult == [raised |-> FALSE, latency |-> 0, success |-> FALSE, error |-> "none"]

\* any 2xx status taken for a success (a faulty variant of is_success)
is_success_2xx(status) == status \in 200..299

\* `resp.status == 200`
is_success(status) == status = HTTP_OK

\* an executor that lets a transport failure escape as an exception (a
\* faulty variant of make_request)
make_request_raising(s, transport, status, elapsed) ==
    IF transport = "response"
    THEN [raised |-> FALSE, latency |-> elapsed,
          success |-> status = HTTP_OK, error |-> "none"]
    ELSE [raised |-> TRUE, latency |-> 0, success |-> FALSE, error |-> transport]

\* What one request returns to its gather, per script: the (latency, success)
\* tuple (run_wave adds the error text, test_throughput_scaling returns the
\* flag alone).  `elapsed` is perf_counter() - start at the point of return.
make_request(s, transport, status, elapsed) ==
    IF transport = "response"
    THEN [raised |-> FALSE,
          latency |-> IF s = "scaling" THEN 0 ELSE elapsed,
          success |-> is_success(status), error |-> "none"]
    ELSE CASE s \in {"fixed"} ->
                 [raised |-> FALSE, latency |-> 0, success |-> FALSE, error |-> "none"]
           [] s = "wave" ->
                 [raised |-> FALSE, latency |-> 0, success |-> FALSE, error |-> transport]
           [] s = "scaling" ->
                 [raised |-> FALSE, latency |-> 0, success |-> FALSE, error |-> "none"]
           [] OTHER ->
                 [raised |-> FALSE, latency |-> elapsed, success |-> FALSE, error |-> "none"]

\* ==================================================== batch arithmetic
\* the batch count rounded down (a faulty variant of num_batches_of)
num_batches_floor(total) == total \div BatchSize

\* num_batches = (total_requests + batch_size - 1) // batch_size
num_batches_of(total) == (total + BatchSize - 1) \div BatchSize

\* requests_in_batch = min(batch_size, total_requests - (batch_num - 1) * batch_size)
requests_in_batch(total, k) == Min(BatchSize, total - (k - 1) * BatchSize)

\* num_requests = min(1000, concurrency * 20), scaled to the request bound
scaling_requests(c) == Min(MaxRequests, c * 2)

\* requests of batch k of the run
batch_requests(s, total, k) ==
    CASE s = "fixed"   -> requests_in_batch(total, k)
      [] s = "scaling" -> scaling_requests(concurrency_levels[k])
      [] OTHER         -> total

\* step of the chunk loop: min(500, num_requests) in run_batch, `concurrent`
\* in the sliced scripts, the whole batch where one gather takes all tasks
chunk_size(s, n, c) ==
    CASE s = "fixed"          -> Min(ChunkCap, n)
      [] s \in SlicedScripts  -> c
      [] OTHER                -> n

\* chunk_requests = min(chunk_size, num_requests - i)
chunk_requests(s, n, c, off) == Min(chunk_size(s, n, c), n - off)

\* num_workers = min(concurrent, 100)
num_workers(c) == Min(c, MaxWorkers)

\* ============================================================== tasks
NewTasks(k) == [t \in 1..k |-> [st |-> "waiting", res |-> NoResult]]

TasksIn(st) == {t \in DOMAIN tasks : tasks[t].st = st}
Inflight == Cardinality(TasksIn("flying"))
AllDone == \A t \in DOMAIN tasks : tasks[t].st = "done"

\* a semaphore created one slot too wide (a faulty variant of Semaphore)
Semaphore_off_by_one(c) == c + 1

\* a slot that is never handed back (a faulty variant of SemaphoreRelease)
SemaphoreRelease_lost(v) == v

\* asyncio.Semaphore(concurrent)
Semaphore(c) == c
\* Semaphore.acquire() goes through when the value is positive
SemaphoreFree(v) == v > 0
\* Semaphore.release(), on leaving `async with semaphore`
SemaphoreRelease(v) == v + 1

\* the gather in progress is one whose tasks pass `async with semaphore`
UsesSemaphore == pc = "gather" /\ script \in SemaphoreScripts

\* the task that runs next: tasks start in creation order, and the waiters
\* of the semaphore are woken first-in first-out
NextWaiting == CHOOSE t \in TasksIn("waiting") : \A u \in TasksIn("waiting") : t <= u
CanStart == TasksIn("waiting") # {} /\ (UsesSemaphore => SemaphoreFree(semaphore))

\* ============================================================ sessions
BatchSession(k) == <<"batch", k>>
WorkerSessions(c) == {<<"worker", w>> : w \in 1..num_workers(c)}
BatchSessionsOpen == {x \in sessions : x[1] = "batch"}

\* a batch that leaves its session open (a faulty variant of ClosedAtEnd)
ClosedAtEnd_leak(s, k, c) == {}

\* the sessions that the end of a batch closes: `await session.close()` in
\* run_batch's finally, the exit of `async with ClientSession` elsewhere,
\* worker.stop() for every worker of the optimized run
ClosedAtEnd(s, k, c) ==
    CASE s \in BatchedScripts -> {BatchSession(k)}
      [] s \in SlicedScripts  -> {<<"run", 0>>}
      [] OTHER                -> WorkerSessions(c)

\* the sessions closed while an exception leaves the run: by run_batch's
\* finally and by the `async with ClientSession` blocks; the optimized run
\* has neither around its workers
ClosedOnException(s, k, c) ==
    IF s = "optimized" THEN {} ELSE ClosedAtEnd(s, k, c)

\* ========================================================= accounting
Acc == [latencies |-> latencies, successes |-> successes, failures |-> failures]

\* a request that did not succeed is dropped from the count (a faulty
\* variant of count_failure)
count_failure_dropped(acc) == acc

\* `failures += 1`
count_failure(acc) == [acc EXCEPT !.failures = @ + 1]

\* the body of the `for result in results` loop of each script
count_result(s, acc, r) ==
    CASE s = "fixed" ->
           IF ~r.raised
           THEN IF r.success
                THEN [acc EXCEPT !.successes = @ + 1,
                                 !.latencies = IF r.latency > 0
                                               THEN Append(@, r.latency) ELSE @]
                ELSE count_failure(acc)
           ELSE count_failure(acc)
      [] s = "enhanced" ->
           IF r.raised
           THEN count_failure([acc EXCEPT !.latencies = Append(@, 0)])
           ELSE IF r.success
                THEN [acc EXCEPT !.latencies = Append(@, r.latency),
                                 !.successes = @ + 1]
                ELSE count_failure([acc EXCEPT !.latencies = Append(@, r.latency)])
      [] s = "wave" ->
           IF r.success
           THEN [acc EXCEPT !.successes = @ + 1,
                            !.latencies = Append(@, r.latency)]
           ELSE acc
      [] s = "runtest" ->
           IF r.success
           THEN [acc EXCEPT !.latencies = Append(@, r.latency),
                            !.successes = @ + 1]
           ELSE [acc EXCEPT !.latencies = Append(@, r.latency)]
      [] s = "scaling" ->
           IF r.success THEN [acc EXCEPT !.successes = @ + 1] ELSE acc
      [] OTHER -> acc

RECURSIVE count_results(_, _, _)
count_results(s, acc, rs) ==
    IF rs = <<>> THEN acc
    ELSE count_results(s, count_result(s, acc, Head(rs)), Tail(rs))

\* an update whose write is lost (a faulty variant of update_stats)
update_stats_lost(acc, r) == acc

\* process_with_stats of the optimized run: under stats['lock'], append the
\* latency and count the outcome
update_stats(acc, r) ==
    IF r.success
    THEN [acc EXCEPT !.latencies = Append(@, r.latency), !.successes = @ + 1]
    ELSE count_failure([acc EXCEPT !.latencies = Append(@, r.latency)])

\* what gather hands back: the tasks' results, in task order
GatherResults == [t \in DOMAIN tasks |-> tasks[t].res]

\* results = [(0, False)] * batch_size, after asyncio.TimeoutError
TimeoutResults(k) ==
    [t \in 1..k |-> [raised |-> FALSE, latency |-> 0, success |-> FALSE, error |-> "none"]]

\* a gather without return_exceptions raises as soon as one task has raised
GatherRaises ==
    /\ script \notin ReturnExceptionsScripts
    /\ \E t \in DOMAIN tasks : tasks[t].st = "done" /\ tasks[t].res.raised

\* 'failed' of the batch record: the failures counter, requests_per_wave -
\* successful in run_wave; run_test and the scaling test report none (-1)
failed_of(s, n, acc) ==
    CASE s \in {"fixed", "enhanced", "optimized"} -> acc.failures
      [] s = "wave" -> n - acc.successes
      [] OTHER -> -1

BatchRecord(s, k, n, acc) ==
    [batch |-> k, total_requests |-> n, successful |-> acc.successes,
     failed |-> failed_of(s, n, acc), latencies |-> acc.latencies]

\* a cool-down that is skipped before the last batch (a faulty
\* variant of NeedsCooldown)
NeedsCooldown_short(s, k, nb) == s \in {"fixed", "wave"} /\ k < nb - 1

\* `if batch_num < num_batches:` / `if i < num_waves:` before the cool-down
\* sleep; the scaling loop has no cool-down
NeedsCooldown(s, k, nb) == s \in {"fixed", "wave"} /\ k < nb


\* ======================================================= the request run
\* inputs of a run, per script
VolumeOf(s) ==
    CASE s = "wave"    -> 1..MaxPerWave
      [] s = "scaling" -> {0}
      [] OTHER         -> 0..MaxRequests

BatchesOf(s, total) ==
    CASE s = "fixed"   -> {num_batches_of(total)}
      [] s = "wave"    -> 0..MaxWaves
      [] s = "scaling" -> {Len(concurrency_levels)}
      [] OTHER         -> {1}

ConcurrencyOf(s) ==
    IF s = "scaling" THEN {concurrency_levels[1]} ELSE 1..MaxConcurrent

DrvInit ==
    /\ script \in Scripts
    /\ total_requests \in VolumeOf(script)
    /\ concurrent \in ConcurrencyOf(script)
    /\ num_batches \in BatchesOf(script, total_requests)
    /\ pc = "setup"
    /\ batch_num = 0
    /\ num_requests = 0
    /\ i = 0
    /\ tasks = <<>>
    /\ semaphore = 0
    /\ sessions = {}
    /\ warmup_left = 0
    /\ latencies = <<>>
    /\ successes = 0
    /\ failures = 0
    /\ all_results = <<>>
    /\ progress = <<>>

DrvIdle ==
    /\ script = "fixed"
    /\ total_requests = 0
    /\ concurrent = 1
    /\ num_batches = 0
    /\ pc = "done"
    /\ batch_num = 0
    /\ num_requests = 0
    /\ i = 0
    /\ tasks = <<>>
    /\ semaphore = 0
    /\ sessions = {}
    /\ warmup_left = 0
    /\ latencies = <<>>
    /\ successes = 0
    /\ failures = 0
    /\ all_results = <<>>
    /\ progress = <<>>

\* the session a script opens before its batches: get_sample_message's own
\* session, the health check's session, or the one session of the whole run
AuxSession(s) ==
    CASE s \in {"fixed", "optimized"} -> {<<"sample", 0>>}
      [] s = "wave"                   -> {<<"health", 0>>}
      [] s \in SlicedScripts          -> {<<"run", 0>>}
      [] OTHER                        -> {}

\* where the driver goes once the batches may begin
FirstBatchPc(nb) == IF nb >= 1 THEN "batch_start" ELSE "done"

\* The script starts: it opens its first session and sends the sample /
\* health request.  test_throughput_scaling goes straight to its first level.
Setup ==
    /\ pc = "setup"
    /\ sessions' = sessions \cup AuxSession(script)
    /\ pc' = IF script = "scaling" THEN FirstBatchPc(num_batches) ELSE "aux"
    /\ UNCHANGED <<script, total_requests, concurrent, num_batches, batch_num,
                   num_requests, i, tasks, semaphore, warmup_left, latencies,
                   successes, failures, all_results, progress>>

\* The sample / health request is over.  Its own session is closed; the
\* single-pass scripts go on to their warm-up: sequential requests on the
\* run's session, or 2 requests per worker gathered at once after the
\* workers' sessions have been created.
AuxDone ==
    /\ pc = "aux"
    /\ CASE script \in {"fixed", "wave"} ->
              /\ sessions' = sessions \ AuxSession(script)
              /\ pc' = FirstBatchPc(num_batches)
              /\ UNCHANGED <<tasks, warmup_left>>
         [] script \in SlicedScripts ->
              /\ sessions' = sessions
              /\ pc' = "warmup"
              /\ tasks' = NewTasks(Min(1, WarmupRequests))
              /\ warmup_left' = WarmupRequests - Min(1, WarmupRequests)
         [] OTHER ->
              /\ sessions' = (sessions \ AuxSession(script)) \cup WorkerSessions(concurrent)
              /\ pc' = "warmup"
              /\ tasks' = NewTasks(WarmupPerWorker * num_workers(concurrent))
              /\ warmup_left' = 0
    /\ UNCHANGED <<script, total_requests, concurrent, num_batches, batch_num,
                   num_requests, i, semaphore, latencies, successes, failures,
                   all_results, progress>>

\* A warm-up request (or the warm-up gather) has returned: issue the next
\* sequential warm-up request, or go on to the measured run.
WarmupReturn ==
    /\ pc = "warmup"
    /\ AllDone
    /\ IF warmup_left > 0
       THEN /\ tasks' = NewTasks(1)
            /\ warmup_left' = warmup_left - 1
            /\ pc' = "warmup"
       ELSE /\ tasks' = <<>>
            /\ warmup_left' = 0
            /\ pc' = "batch_start"
    /\ UNCHANGED <<script, total_requests, concurrent, num_batches, batch_num,
                   num_requests, i, semaphore, sessions, latencies, successes,
                   failures, all_results, progress>>

\* A batch / wave / level / measured run begins: its session is created
\* (batched scripts), the accumulators are reset, the semaphore is created and
\* the tasks of the first chunk are handed to gather.
StartBatch ==
    /\ pc = "batch_start"
    /\ LET k == batch_num + 1
           c == IF script = "scaling" THEN concurrency_levels[k] ELSE concurrent
           n == batch_requests(script, total_requests, k)
       IN /\ batch_num' = k
          /\ concurrent' = c
          /\ num_requests' = n
          /\ i' = 0
          /\ sessions' = IF script \in BatchedScripts
                         THEN sessions \cup {BatchSession(k)} ELSE sessions
          /\ semaphore' = IF script \in SemaphoreScripts THEN Semaphore(c) ELSE 0
          /\ tasks' = NewTasks(chunk_requests(script, n, c, 0))
          /\ progress' = Append(progress,
                 [size |-> n, started |-> 0, completed |-> 0, aborted |-> 0,
                  closed |-> FALSE, cooled |-> FALSE])
    /\ latencies' = <<>>
    /\ successes' = 0
    /\ failures' = 0
    /\ pc' = "gather"
    /\ UNCHANGED <<script, total_requests, num_batches, warmup_left, all_results>>

\* The batch's client session cannot be created: create_limited_session (or
\* the ClientSession constructor of run_wave / the scaling test) raises
\* before the batch's try block, no caller handles it, and the exception
\* leaves the run (pc = "no_session").
SessionUnavailable ==
    /\ pc = "batch_start"
    /\ script \in BatchedScripts
    /\ pc' = "no_session"
    /\ UNCHANGED <<script, total_requests, concurrent, num_batches, batch_num,
                   num_requests, i, tasks, semaphore, sessions, warmup_left,
                   latencies, successes, failures, all_results, progress>>

\* The next task begins its request: in the semaphore scripts it has passed
\* `async with semaphore`.
StartRequest ==
    /\ pc \in {"warmup", "gather"}
    /\ CanStart
    /\ tasks' = [tasks EXCEPT ![NextWaiting].st = "flying"]
    /\ semaphore' = IF UsesSemaphore THEN semaphore - 1 ELSE semaphore
    /\ progress' = IF pc = "gather"
                   THEN [progress EXCEPT ![batch_num].started = @ + 1]
                   ELSE progress
    /\ UNCHANGED <<script, total_requests, concurrent, num_batches, pc, batch_num,
                   num_requests, i, sessions, warmup_left, latencies, successes,
                   failures, all_results>>

\* A request in flight ends, with a response or a transport failure.  The
\* task returns make_request's value and leaves `async with semaphore`; in
\* the optimized run it first updates the shared stats under the lock.
CompleteRequest(t) ==
    /\ pc \in {"warmup", "gather"}
    /\ t \in TasksIn("flying")
    /\ \E transport \in Transports, status \in Statuses, elapsed \in 1..MaxLat :
         LET r == make_request(script, transport, status, elapsed)
             acc == IF script = "optimized" /\ pc = "gather" /\ ~r.raised
                    THEN update_stats(Acc, r) ELSE Acc
         IN /\ tasks' = [tasks EXCEPT ![t] =
                           [st |-> "done", res |-> IF pc = "warmup" THEN NoResult ELSE r]]
            /\ latencies' = acc.latencies
            /\ successes' = acc.successes
            /\ failures' = acc.failures
    /\ semaphore' = IF UsesSemaphore THEN SemaphoreRelease(semaphore) ELSE semaphore
    /\ progress' = IF pc = "gather"
                   THEN [progress EXCEPT ![batch_num].completed = @ + 1]
                   ELSE progress
    /\ UNCHANGED <<script, total_requests, concurrent, num_batches, pc, batch_num,
                   num_requests, i, sessions, warmup_left, all_results>>

\* what follows a gather of the chunk loop: the results are counted, then the
\* next chunk's tasks are created or the loop is left
AfterChunk(results) ==
    LET acc == count_results(script, Acc, results)
        off == i + chunk_size(script, num_requests, concurrent)
    IN /\ latencies' = acc.latencies
       /\ successes' = acc.successes
       /\ failures' = acc.failures
       /\ IF off < num_requests
          THEN /\ i' = off
               /\ tasks' = NewTasks(chunk_requests(script, num_requests, concurrent, off))
               /\ pc' = "gather"
          ELSE /\ i' = i
               /\ tasks' = <<>>
               /\ pc' = "finally"

\* gather returns: every task of the chunk is done (or, without
\* return_exceptions, one has raised, and the exception leaves the run
\* through the `async with` that closes the session).
ChunkReturn ==
    /\ pc = "gather"
    /\ AllDone \/ GatherRaises
    /\ IF GatherRaises
       THEN /\ pc' = "raised"
            /\ sessions' = sessions \ ClosedOnException(script, batch_num, concurrent)
            /\ UNCHANGED <<i, tasks, latencies, successes, failures>>
       ELSE /\ AfterChunk(GatherResults)
            /\ sessions' = sessions
    /\ UNCHANGED <<script, total_requests, concurrent, num_batches, batch_num,
                   num_requests, semaphore, warmup_left, all_results, progress>>

\* asyncio.wait_for(gather, timeout=30.0) of the enhanced run times out: the
\* slice's unfinished requests are cancelled and the whole slice is counted
\* as [(0, False)] * batch_size.
BatchTimeout ==
    /\ pc = "gather"
    /\ script = "enhanced"
    /\ ~AllDone
    /\ AfterChunk(TimeoutResults(Len(tasks)))
    /\ progress' = [progress EXCEPT ![batch_num].aborted =
                       @ + Cardinality(TasksIn("flying"))]
    /\ UNCHANGED <<script, total_requests, concurrent, num_batches, batch_num,
                   num_requests, semaphore, sessions, warmup_left, all_results>>

\* The run's coroutine is cancelled while it awaits its requests (the
\* CancelledError / interrupt is raised inside the try body or the `async
\* with`): the pending requests are cancelled with it and the exception
\* leaves the run, closing what finally / `async with` close.
RunCancelled ==
    /\ pc \in {"warmup", "gather"}
    /\ tasks' = <<>>
    /\ sessions' = sessions \ ClosedOnException(script, batch_num, concurrent)
    /\ pc' = "cancelled"
    /\ UNCHANGED <<script, total_requests, concurrent, num_batches, batch_num,
                   num_requests, i, semaphore, warmup_left, latencies,
                   successes, failures, all_results, progress>>

\* where the driver goes after a batch
AfterBatchPc(s, k, nb) ==
    IF NeedsCooldown(s, k, nb) THEN "cooldown"
    ELSE IF s \in BatchedScripts /\ k < nb THEN "batch_start" ELSE "done"

\* The batch ends: its session(s) are closed, its record is appended to the
\* run's results, and the driver cools down, starts the next batch or returns.
EndBatch ==
    /\ pc = "finally"
    /\ sessions' = sessions \ ClosedAtEnd(script, batch_num, concurrent)
    /\ all_results' = Append(all_results,
                             BatchRecord(script, batch_num, num_requests, Acc))
    /\ progress' = [progress EXCEPT ![batch_num].closed = TRUE]
    /\ pc' = AfterBatchPc(script, batch_num, num_batches)
    /\ UNCHANGED <<script, total_requests, concurrent, num_batches, batch_num,
                   num_requests, i, tasks, semaphore, warmup_left, latencies,
                   successes, failures>>

\* `await asyncio.sleep(3)` / sleep(5) between two batches is over.
Cooldown ==
    /\ pc = "cooldown"
    /\ progress' = [progress EXCEPT ![batch_num].cooled = TRUE]
    /\ pc' = "batch_start"
    /\ UNCHANGED <<script, total_requests, concurrent, num_batches, batch_num,
                   num_requests, i, tasks, semaphore, sessions, warmup_left,
                   latencies, successes, failures, all_results>>

\* =========================================================== CPUMonitor
MonitorKinds == {"enhanced", "optimized"}
CpuReadings == 0..MaxCpu
MemReadings == 1..MaxMem

RECURSIVE SumSeq(_)
SumSeq(q) == IF q = <<>> THEN 0 ELSE Head(q) + SumSeq(Tail(q))
MaxSeq(q) == CHOOSE m \in {q[j] : j \in DOMAIN q} : \A j \in DOMAIN q : q[j] <= m

\* what stop() has computed so far; an average is kept as <<sum, count>>
NoSummary == [status |-> "none", avg_cpu |-> <<0, 1>>, peak_cpu |-> 0,
              avg_memory |-> <<0, 1>>, peak_memory |-> 0]
\* {'avg_cpu': 0, 'peak_cpu': 0, 'avg_memory': 0, 'peak_memory': 0}
ZeroSummary == [status |-> "ok", avg_cpu |-> <<0, 1>>, peak_cpu |-> 0,
                avg_memory |-> <<0, 1>>, peak_memory |-> 0]

NoHistory == [failed |-> FALSE, late_append |-> FALSE,
              stop_after_failure |-> FALSE, empty_at_check |-> FALSE]

\* stop() is past its join: it is computing the summary or has returned
StopComputing == stop_pc \in {"check", "cpu", "memory", "returned"}

\* the emptiness test is left out (a faulty variant of no_samples)
no_samples_unchecked(cpu) == FALSE

\* `if not self.cpu_samples:`
no_samples(cpu) == cpu = <<>>

\* a reading can also fail after the cpu sample has been appended (a
\* faulty variant of CanFail)
CanFail_late(th) == th \in {"init", "sampling", "appended_cpu"}

\* where the sampling thread can meet an exception: psutil.Process() before
\* the loop, and the psutil readings inside the try, all before the appends
CanFail(th) == th \in {"init", "sampling"}

\* `if cpu_percent > 0:` of the optimized monitor; the enhanced one appends
\* every reading
keeps_sample(kind, cpu) == kind = "enhanced" \/ cpu > 0

\* join() returns when the thread has finished; join(timeout=1) of the
\* optimized monitor also returns when the second has passed
join_returns(kind, th) == kind = "optimized" \/ th = "exited"

\* current_test = None
None == [open |-> FALSE, concurrent |-> 0, has_throughput |-> FALSE,
         throughput |-> 0, has_latency |-> FALSE]

\* nothing is being parsed
ParseIdle ==
    /\ lines = <<>>
    /\ line_no = 1
    /\ current_test = None
    /\ parsed = <<>>

\* no test of a sweep has begun
SweepIdle ==
    /\ test_number = 0
    /\ old_threads = <<>>

\* ---- CPUMonitor at rest (the request run does not touch it)
MonIdle ==
    /\ SweepIdle
    /\ ParseIdle
    /\ monitor_kind = "enhanced"
    /\ monitoring = FALSE
    /\ thread = "none"
    /\ cpu_samples = <<>>
    /\ memory_samples = <<>>
    /\ sample = <<0, 0>>
    /\ stop_pc = "idle"
    /\ summary = NoSummary
    /\ mon_hist = NoHistory

\* no statistics computed yet
NoReport == [error |-> "none"]

\* no remote call under study
NoCall == [transport |-> "none", status |-> 0, elapsed |-> 0]

StatIdle ==
    /\ total_time = 0
    /\ report = NoReport
    /\ call = NoCall

Init == DrvInit /\ MonIdle /\ StatIdle

Next ==
    \/ Setup /\ UNCHANGED <<monVars, statVars, sweepVars, parseVars>>
    \/ AuxDone /\ UNCHANGED <<monVars, statVars, sweepVars, parseVars>>
    \/ WarmupReturn /\ UNCHANGED <<monVars, statVars, sweepVars, parseVars>>
    \/ StartBatch /\ UNCHANGED <<monVars, statVars, sweepVars, parseVars>>
    \/ SessionUnavailable /\ UNCHANGED <<monVars, statVars, sweepVars, parseVars>>
    \/ StartRequest /\ UNCHANGED <<monVars, statVars, sweepVars, parseVars>>
    \/ (\E t \in DOMAIN tasks : CompleteRequest(t)) /\ UNCHANGED <<monVars, statVars, sweepVars, parseVars>>
    \/ ChunkReturn /\ UNCHANGED <<monVars, statVars, sweepVars, parseVars>>
    \/ BatchTimeout /\ UNCHANGED <<monVars, statVars, sweepVars, parseVars>>
    \/ EndBatch /\ UNCHANGED <<monVars, statVars, sweepVars, parseVars>>
    \/ Cooldown /\ UNCHANGED <<monVars, statVars, sweepVars, parseVars>>
    \/ RunCancelled /\ UNCHANGED <<monVars, statVars, sweepVars, parseVars>>

Spec == Init /\ [][Next]_vars


\* ================================================= claims on the request run
\* batch k has returned to the driver loop (its gather loop is over)
Returned(k) == k <= Len(all_results) \/ (k = batch_num /\ pc = "finally")

\* requests of the current batch that have not begun
Unstarted == num_requests - i - Cardinality(DOMAIN tasks \ TasksIn("waiting"))

RECURSIVE SumSizes(_)
SumSizes(rs) == IF rs = <<>> THEN 0 ELSE Head(rs).total_requests + SumSizes(Tail(rs))

\* ceil(v / b), by its definition
CeilDiv(v, b) == CHOOSE q \in 0..v : q * b >= v /\ (q = 0 \/ (q - 1) * b < v)

\* C1: in a semaphore-controlled batch (run_batch, run_wave,
\* test_throughput_scaling) with bound C, at most C requests are in flight
\* at every instant, and a batch has not returned before every one of its
\* N requests has completed or failed.
C1_BoundedAndComplete ==
    script \in {"fixed", "wave", "scaling"} =>
        /\ Inflight <= concurrent
        /\ \A k \in DOMAIN progress :
              Returned(k) => progress[k].completed = progress[k].size

\* C1 witness: a second wave runs at its bound with a request still waiting
\* for a slot, after the first wave has returned.
C1_Witness ==
    /\ script = "wave"
    /\ Len(all_results) >= 1
    /\ pc = "gather"
    /\ Inflight = concurrent
    /\ TasksIn("waiting") # {}

\* C2: once a batch (or a single-pass run) has finished, its successes plus
\* its failures equal its requested count, whatever the outcomes were and
\* also when a batch timeout covered part of it.
C2_AllAccounted ==
    script \in {"fixed", "enhanced", "optimized"} =>
        /\ \A k \in DOMAIN all_results :
              all_results[k].successful + all_results[k].failed
                  = all_results[k].total_requests
        /\ pc = "finally" => successes + failures = num_requests

\* C2 witness: an enhanced run has finished with successes, with failures
\* and with a slice cut short by the batch timeout.
C2_Witness ==
    /\ script = "enhanced"
    /\ Len(all_results) = 1
    /\ all_results[1].successful >= 1
    /\ all_results[1].failed >= 2
    /\ progress[1].aborted >= 1
    /\ progress[1].completed >= 2

\* C3 (as claimed): in every script, whenever a request has completed while
\* another is still in flight and unstarted requests of the run remain, the
\* freed slot lets a pending request start at once.
C3_SlotFreedAtOnce ==
    (pc = "gather" /\ Unstarted > 0 /\ Inflight > 0 /\ Inflight < concurrent)
        => CanStart

\* C3 (amended): run_wave, test_throughput_scaling and the optimized run admit
\* requests through one semaphore over the whole volume, so a free slot and an
\* unstarted request always let a request start; run_batch does so only among
\* the requests of its current chunk; the enhanced run and run_test have no
\* admission primitive: they gather slices of at most C requests, every
\* request of a slice starts without waiting, and requests beyond the slice
\* wait for the whole slice.
C3_SlotFreedWithinGather ==
    pc = "gather" =>
        /\ (script \in {"wave", "scaling", "optimized"}
              /\ Unstarted > 0 /\ Inflight < concurrent) => CanStart
        /\ (script = "fixed" /\ TasksIn("waiting") # {} /\ Inflight < concurrent)
              => CanStart
        /\ script \in {"fixed"} \cup SlicedScripts =>
              /\ Len(tasks) <= IF script = "fixed" THEN ChunkCap ELSE concurrent
              /\ progress[batch_num].started <= i + Len(tasks)
        /\ (script \in SlicedScripts /\ TasksIn("waiting") # {}) => CanStart

\* C3 witness: in a semaphore script a request has completed, a later one is
\* still waiting and a slot is free.
C3_Witness ==
    /\ script \in SemaphoreScripts
    /\ pc = "gather"
    /\ TasksIn("done") # {}
    /\ TasksIn("waiting") # {}
    /\ Inflight < concurrent

\* C4: in run_batch and run_wave a failed request is a recorded outcome: no
\* task result is an exception, the run never leaves by an exception, and a
\* batch that has returned has run every one of its requests to completion.
C4_FailuresRecorded ==
    script \in {"fixed", "wave"} =>
        /\ pc # "raised"
        /\ \A t \in DOMAIN tasks : ~tasks[t].res.raised
        /\ \A k \in DOMAIN all_results :
              progress[k].completed = all_results[k].total_requests

\* C4 witness: a wave of two requests has returned with one success and one
\* failure.
C4_Witness ==
    /\ script = "wave"
    /\ Len(all_results) >= 1
    /\ all_results[1].successful = 1
    /\ all_results[1].failed = 1

\* C5: each batch has its own client: at most one batch client is open, it is
\* the current batch's, it is open while the batch's requests run, and none
\* is open when a batch is about to start, during the cool-down or after the
\* run, also when an exception raised in the batch body has ended the run.
C5_OneFreshClient ==
    script \in {"fixed", "wave"} =>
        /\ BatchSessionsOpen \subseteq {BatchSession(batch_num)}
        /\ pc = "gather" => BatchSession(batch_num) \in sessions
        /\ pc \in {"batch_start", "cooldown", "done", "raised", "cancelled"}
              => BatchSessionsOpen = {}

\* C5 witness: the second batch is about to start.
C5_Witness ==
    /\ script = "fixed"
    /\ pc = "batch_start"
    /\ batch_num = 1

\* C6: batches run one after another: once batch k+1 exists, every request
\* of batch k has completed, its client is closed and its cool-down is over;
\* when the run is done, the last batch has had no cool-down.
C6_SequentialWithCooldown ==
    script \in {"fixed", "wave"} =>
        /\ \A k \in DOMAIN progress :
              k < Len(progress) =>
                  /\ progress[k].completed = progress[k].size
                  /\ progress[k].closed
                  /\ progress[k].cooled
        /\ (pc = "done" /\ progress # <<>>) => ~progress[Len(progress)].cooled

\* C6 witness: a run of two batches is done.
C6_Witness ==
    /\ script = "fixed"
    /\ pc = "done"
    /\ Len(progress) = 2

\* C7: for a volume V >= 0 the batch driver runs exactly ceil(V / B)
\* batches, each of 1..B requests, only the last one smaller than B, and the
\* sizes add up to V.
C7_Partition ==
    script = "fixed" =>
        /\ \A k \in DOMAIN progress :
              /\ progress[k].size >= 1
              /\ progress[k].size <= BatchSize
              /\ k < Len(progress) => progress[k].size = BatchSize
        /\ pc = "done" =>
              /\ Len(all_results) = CeilDiv(total_requests, BatchSize)
              /\ SumSizes(all_results) = total_requests

\* C7 witness: a run is done whose last batch is smaller than the others.
C7_Witness ==
    /\ script = "fixed"
    /\ pc = "done"
    /\ Len(all_results) = 2
    /\ all_results[2].total_requests < BatchSize


\* ------------------------------------------------ the monitor's caller
MonInit ==
    /\ monitor_kind \in MonitorKinds
    /\ monitoring = FALSE
    /\ thread = "none"
    /\ cpu_samples = <<>>
    /\ memory_samples = <<>>
    /\ sample = <<0, 0>>
    /\ stop_pc = "idle"
    /\ summary = NoSummary
    /\ mon_hist = NoHistory

\* start(): monitoring = True, the thread is created and started.  The
\* optimized thread first builds its psutil.Process().
MonStart ==
    /\ stop_pc = "idle"
    /\ monitoring' = TRUE
    /\ thread' = IF monitor_kind = "optimized" THEN "init" ELSE "loop"
    /\ stop_pc' = "running"
    /\ UNCHANGED <<monitor_kind, cpu_samples, memory_samples, sample, summary,
                   mon_hist>>

\* stop() begins: monitoring = False; with a thread it joins, without one
\* (stop() before start()) it goes straight to the summary.
MonStopBegin ==
    /\ stop_pc \in {"idle", "running"}
    /\ monitoring' = FALSE
    /\ stop_pc' = IF thread = "none" THEN "check" ELSE "joining"
    /\ mon_hist' = [mon_hist EXCEPT !.stop_after_failure = mon_hist.failed]
    /\ UNCHANGED <<monitor_kind, thread, cpu_samples, memory_samples, sample,
                   summary>>

\* the join of stop() returns
MonJoinReturn ==
    /\ stop_pc = "joining"
    /\ join_returns(monitor_kind, thread)
    /\ stop_pc' = "check"
    /\ UNCHANGED <<monitor_kind, monitoring, thread, cpu_samples,
                   memory_samples, sample, summary, mon_hist>>

\* `if not self.cpu_samples: return {zeros}`
MonStopCheck ==
    /\ stop_pc = "check"
    /\ mon_hist' = [mon_hist EXCEPT !.empty_at_check =
                       cpu_samples = <<>> /\ memory_samples = <<>>]
    /\ IF no_samples(cpu_samples)
       THEN /\ summary' = ZeroSummary
            /\ stop_pc' = "returned"
       ELSE /\ summary' = summary
            /\ stop_pc' = "cpu"
    /\ UNCHANGED <<monitor_kind, monitoring, thread, cpu_samples,
                   memory_samples, sample>>

\* sum(cpu_samples) / len(cpu_samples) and max(cpu_samples); an empty
\* sequence raises (ZeroDivisionError)
MonStopCpu ==
    /\ stop_pc = "cpu"
    /\ IF cpu_samples = <<>>
       THEN /\ summary' = [summary EXCEPT !.status = "error"]
            /\ stop_pc' = "returned"
       ELSE /\ summary' = [summary EXCEPT
                              !.avg_cpu = <<SumSeq(cpu_samples), Len(cpu_samples)>>,
                              !.peak_cpu = MaxSeq(cpu_samples)]
            /\ stop_pc' = "memory"
    /\ UNCHANGED <<monitor_kind, monitoring, thread, cpu_samples,
                   memory_samples, sample, mon_hist>>

\* sum(memory_samples) / len(memory_samples) and max(memory_samples), then
\* the summary is returned; an empty sequence raises (ZeroDivisionError)
MonStopMemory ==
    /\ stop_pc = "memory"
    /\ IF memory_samples = <<>>
       THEN summary' = [summary EXCEPT !.status = "error"]
       ELSE summary' = [summary EXCEPT
                           !.status = "ok",
                           !.avg_memory = <<SumSeq(memory_samples), Len(memory_samples)>>,
                           !.peak_memory = MaxSeq(memory_samples)]
    /\ stop_pc' = "returned"
    /\ UNCHANGED <<monitor_kind, monitoring, thread, cpu_samples,
                   memory_samples, sample, mon_hist>>

\* ------------------------------------------------- the sampling thread
\* psutil.Process() of the optimized thread has been built
ThreadInit ==
    /\ thread = "init"
    /\ thread' = "loop"
    /\ UNCHANGED <<monitor_kind, monitoring, cpu_samples, memory_samples,
                   sample, stop_pc, summary, mon_hist>>

\* `while self.monitoring:` (a monitor takes at most MaxSamples samples)
ThreadLoop ==
    /\ thread = "loop"
    /\ ~monitoring \/ Len(cpu_samples) < MaxSamples
    /\ thread' = IF monitoring THEN "sampling" ELSE "exited"
    /\ UNCHANGED <<monitor_kind, monitoring, cpu_samples, memory_samples,
                   sample, stop_pc, summary, mon_hist>>

\* the readings are taken: cpu_percent (which blocks for the interval in
\* the optimized monitor) and the memory percentage
ThreadRead ==
    /\ thread = "sampling"
    /\ \E c \in CpuReadings, m \in MemReadings :
         /\ sample' = <<c, m>>
         /\ thread' = IF keeps_sample(monitor_kind, c) THEN "have_sample"
                      ELSE "loop"
    /\ UNCHANGED <<monitor_kind, monitoring, cpu_samples, memory_samples,
                   stop_pc, summary, mon_hist>>

\* self.cpu_samples.append(cpu_percent)
ThreadAppendCpu ==
    /\ thread = "have_sample"
    /\ cpu_samples' = Append(cpu_samples, sample[1])
    /\ thread' = "appended_cpu"
    /\ mon_hist' = [mon_hist EXCEPT !.late_append = @ \/ StopComputing]
    /\ UNCHANGED <<monitor_kind, monitoring, memory_samples, sample, stop_pc,
                   summary>>

\* self.memory_samples.append(memory_percent); the enhanced thread then
\* sleeps for the interval
ThreadAppendMemory ==
    /\ thread = "appended_cpu"
    /\ memory_samples' = Append(memory_samples, sample[2])
    /\ thread' = IF monitor_kind = "enhanced" THEN "sleeping" ELSE "loop"
    /\ mon_hist' = [mon_hist EXCEPT !.late_append = @ \/ StopComputing]
    /\ UNCHANGED <<monitor_kind, monitoring, cpu_samples, sample, stop_pc,
                   summary>>

\* time.sleep(self.interval) is over
ThreadWake ==
    /\ thread = "sleeping"
    /\ thread' = "loop"
    /\ UNCHANGED <<monitor_kind, monitoring, cpu_samples, memory_samples,
                   sample, stop_pc, summary, mon_hist>>

\* a psutil call raises: `except Exception: break` ends the loop (an
\* exception of psutil.Process() ends the thread); nothing reaches the caller
ThreadFails ==
    /\ CanFail(thread)
    /\ thread' = "exited"
    /\ mon_hist' = [mon_hist EXCEPT !.failed = TRUE]
    /\ UNCHANGED <<monitor_kind, monitoring, cpu_samples, memory_samples,
                   sample, stop_pc, summary>>

InitMon == DrvIdle /\ MonInit /\ StatIdle /\ SweepIdle /\ ParseIdle

NextMon ==
    \/ MonStart /\ UNCHANGED <<drvVars, statVars, sweepVars, parseVars>>
    \/ MonStopBegin /\ UNCHANGED <<drvVars, statVars, sweepVars, parseVars>>
    \/ MonJoinReturn /\ UNCHANGED <<drvVars, statVars, sweepVars, parseVars>>
    \/ MonStopCheck /\ UNCHANGED <<drvVars, statVars, sweepVars, parseVars>>
    \/ MonStopCpu /\ UNCHANGED <<drvVars, statVars, sweepVars, parseVars>>
    \/ MonStopMemory /\ UNCHANGED <<drvVars, statVars, sweepVars, parseVars>>
    \/ ThreadInit /\ UNCHANGED <<drvVars, statVars, sweepVars, parseVars>>
    \/ ThreadLoop /\ UNCHANGED <<drvVars, statVars, sweepVars, parseVars>>
    \/ ThreadRead /\ UNCHANGED <<drvVars, statVars, sweepVars, parseVars>>
    \/ ThreadAppendCpu /\ UNCHANGED <<drvVars, statVars, sweepVars, parseVars>>
    \/ ThreadAppendMemory /\ UNCHANGED <<drvVars, statVars, sweepVars, parseVars>>
    \/ ThreadWake /\ UNCHANGED <<drvVars, statVars, sweepVars, parseVars>>
    \/ ThreadFails /\ UNCHANGED <<drvVars, statVars, sweepVars, parseVars>>

SpecMon == InitMon /\ [][NextMon]_vars


\* ================================================ claims on the CPUMonitor
ThreadFinished == thread \in {"none", "exited"}

\* C8: stop() computes its summary only once the sampling thread has
\* finished its last sample and ended, and no sample is appended after stop()
\* has begun to compute or has returned.
C8_StopWaitsForLastSample ==
    /\ StopComputing => ThreadFinished
    /\ ~mon_hist.late_append

C10_FailureSwallowed ==
    mon_hist.failed =>
        /\ thread = "exited"
        /\ Len(cpu_samples) = Len(memory_samples)
        /\ (stop_pc = "returned" /\ mon_hist.stop_after_failure) =>
              /\ summary.status = "ok"
              /\ cpu_samples = <<>> => summary = ZeroSummary
              /\ cpu_samples # <<>> =>
                    /\ summary.avg_cpu = <<SumSeq(cpu_samples), Len(cpu_samples)>>
                    /\ summary.avg_memory
                          = <<SumSeq(memory_samples), Len(memory_samples)>>

\* C10 witness: the thread failed after a first sample, and a later stop()
\* has returned the summary of that sample.
C10_Witness ==
    /\ mon_hist.failed
    /\ mon_hist.stop_after_failure
    /\ stop_pc = "returned"
    /\ Len(cpu_samples) = 1


\* ===================================================== one request alone
\* SpecExec: the executor on its own.  One request is in flight, the remote
\* call's behaviour is drawn at the start, and either the request returns
\* its tuple or (enhanced_benchmark.py) the wait_for around its slice times
\* out first.

\* status codes around the 2xx range
ResponseStatuses == {199, 200, 201, 204, 299, 300, 404, 500}

\* a response carries a status; a timeout or a connection error carries none
Calls ==
    [transport : {"response"}, status : ResponseStatuses, elapsed : 1..MaxLat]
    \cup [transport : Transports \ {"response"}, status : {0}, elapsed : 1..MaxLat]

InitExec ==
    /\ script \in Scripts
    /\ call \in Calls
    /\ tasks = <<[st |-> "flying", res |-> NoResult]>>
    /\ pc = "gather"
    /\ num_requests = 1
    /\ total_requests = 1
    /\ concurrent = 1
    /\ num_batches = 1
    /\ batch_num = 1
    /\ i = 0
    /\ semaphore = 0
    /\ sessions = {}
    /\ warmup_left = 0
    /\ latencies = <<>>
    /\ successes = 0
    /\ failures = 0
    /\ all_results = <<>>
    /\ progress = <<>>
    /\ total_time = 0
    /\ report = NoReport
    /\ MonIdle

\* make_request / process_request returns
RequestReturns ==
    /\ pc = "gather"
    /\ tasks[1].st = "flying"
    /\ tasks' = <<[st |-> "done",
                   res |-> make_request(script, call.transport, call.status,
                                        call.elapsed)]>>
    /\ pc' = "returned"
    /\ UNCHANGED <<script, total_requests, concurrent, num_batches, batch_num,
                   num_requests, i, semaphore, sessions, warmup_left, latencies,
                   successes, failures, all_results, progress>>
    /\ UNCHANGED <<monVars, statVars, sweepVars, parseVars>>

\* asyncio.TimeoutError of wait_for(gather(...), timeout=30.0): the request's
\* result is replaced by (0, False)
SliceTimesOut ==
    /\ pc = "gather"
    /\ script = "enhanced"
    /\ tasks' = <<[st |-> "done", res |-> TimeoutResults(1)[1]]>>
    /\ pc' = "timed_out"
    /\ UNCHANGED <<script, total_requests, concurrent, num_batches, batch_num,
                   num_requests, i, semaphore, sessions, warmup_left, latencies,
                   successes, failures, all_results, progress>>
    /\ UNCHANGED <<monVars, statVars, sweepVars, parseVars>>

NextExec ==
    \/ RequestReturns
    \/ SliceTimesOut

SpecExec == InitExec /\ [][NextExec]_vars

\* C15: a request that failed in transport, or that was marked failed by the
\* batch timeout, is recorded with the time that had elapsed when it failed,
\* which is never 0.
C15_FailureLatencyIsElapsed ==
    /\ (pc = "returned" /\ call.transport # "response") =>
           /\ tasks[1].res.latency = call.elapsed
           /\ tasks[1].res.latency # 0
    /\ pc = "timed_out" => tasks[1].res.latency # 0

Zero == <<0, 1>>
RatEq(x, y) == x[1] * y[2] = y[1] * x[2]
RatLeq(x, y) == x[1] * y[2] <= y[1] * x[2]

Range(seq) == {seq[j] : j \in DOMAIN seq}
MinSeq(seq) == CHOOSE v \in Range(seq) : \A w \in Range(seq) : v <= w

\* x put into the ascending sequence s, after the elements it is not below
insort(x, s) ==
    LET k == Cardinality({j \in DOMAIN s : s[j] <= x})
    IN SubSeq(s, 1, k) \o <<x>> \o SubSeq(s, k + 1, Len(s))

\* the list left as it was collected (a faulty variant of sorted)
sorted_as_collected(seq) == seq

\* latencies.sort() / sorted(latencies)
RECURSIVE sorted(_)
sorted(seq) == IF seq = <<>> THEN <<>> ELSE insort(Head(seq), sorted(Tail(seq)))

\* the rank rounded to the nearest index instead of down (a faulty variant
\* of get_percentile)
get_percentile_rounded(data, percentile) ==
    IF data = <<>> THEN 0
    ELSE LET index == (Len(data) * percentile + 50) \div 100
         IN data[(IF index >= Len(data) THEN Len(data) - 1 ELSE index) + 1]

\* get_percentile(data, percentile), data sorted; indices are 0-based in the
\* code and 1-based here
get_percentile(data, percentile) ==
    IF data = <<>> THEN 0
    ELSE LET index == (Len(data) * percentile) \div 100
         IN data[(IF index >= Len(data) THEN Len(data) - 1 ELSE index) + 1]

\* get_percentile(latencies, 99.9) of run_test
get_percentile_999(data) ==
    IF data = <<>> THEN 0
    ELSE LET index == (Len(data) * 999) \div 1000
         IN data[(IF index >= Len(data) THEN Len(data) - 1 ELSE index) + 1]

\* latencies[int(len(latencies) * 0.99)] if latencies else 0
p99_latency(data) ==
    IF data = <<>> THEN 0 ELSE data[(Len(data) * 99) \div 100 + 1]

\* sum(latencies) / len(latencies) if latencies else 0
avg_latency(data) == IF data = <<>> THEN Zero ELSE <<SumSeq(data), Len(data)>>

\* every whole percentile a caller may ask for
Percentiles == 0..100

\* run_test reports its latencies times 1000
LatencyScale(s) == IF s = "runtest" THEN 1000 ELSE 1

\* the 'latency' dict of run_benchmark_test and run_test, from the sorted list
latency_dict(s, data) ==
    [min |-> IF data = <<>> THEN 0
             ELSE IF s = "runtest" THEN data[1] * 1000 ELSE MinSeq(data),
     avg |-> <<avg_latency(data)[1] * LatencyScale(s), avg_latency(data)[2]>>,
     p50 |-> get_percentile(data, 50) * LatencyScale(s),
     p95 |-> get_percentile(data, 95) * LatencyScale(s),
     p99 |-> get_percentile(data, 99) * LatencyScale(s),
     p999 |-> IF s = "runtest" THEN get_percentile_999(data) * 1000 ELSE 0,
     max |-> IF data = <<>> THEN 0
             ELSE IF s = "runtest" THEN data[Len(data)] * 1000 ELSE MaxSeq(data)]

\* x / total_time if total_time > 0 else 0
per_second(x, t) == IF t > 0 THEN <<x, t>> ELSE Zero

\* (successes / num_requests * 100) if num_requests > 0 else 0
success_rate(succ, n) == IF n > 0 THEN <<succ * 100, n>> ELSE Zero

\* scripts whose statistics SpecStats covers, and those with get_percentile
StatScripts == {"fixed", "wave", "enhanced", "runtest", "optimized"}
PercentileScripts == {"enhanced", "runtest", "optimized"}

\* the latency list the request loop leaves behind: run_batch and run_wave
\* keep the latencies of the successes; the others keep one latency per
\* request, where only the enhanced run can hold zeros (timed-out slices),
\* no more of them than there are failures
LatenciesOf(s, n, succ) ==
    CASE s \in {"fixed", "wave"} -> [1..succ -> 1..MaxLatencyMs]
      [] s = "enhanced" ->
           {l \in [1..n -> 0..MaxLatencyMs] :
               Cardinality({j \in 1..n : l[j] = 0}) <= n - succ}
      [] OTHER -> [1..n -> 1..MaxLatencyMs]

\* request counts of a batch or run: up to the bound, and the volume 5 of
\* the end-to-end scenarios; run_wave is only called with its default count
StatVolumes(s) == (IF s = "wave" THEN 1..MaxRequests ELSE 0..MaxRequests) \cup {5}

InitStats ==
    /\ script \in StatScripts
    /\ num_requests \in StatVolumes(script)
    /\ total_requests = num_requests
    /\ successes \in 0..num_requests
    /\ failures = IF script \in {"wave", "runtest"} THEN 0 ELSE num_requests - successes
    /\ latencies \in LatenciesOf(script, num_requests, successes)
    /\ total_time \in 0..MaxDuration
    /\ pc = "statistics"
    /\ concurrent = 1
    /\ num_batches = 1
    /\ batch_num = 1
    /\ i = 0
    /\ tasks = <<>>
    /\ semaphore = 0
    /\ sessions = {}
    /\ warmup_left = 0
    /\ all_results = <<>>
    /\ progress = <<>>
    /\ report = NoReport
    /\ call = NoCall
    /\ MonIdle

\* what the statistics leave alone
statFrame == <<script, total_requests, concurrent, num_batches, batch_num,
               num_requests, i, tasks, semaphore, sessions, warmup_left,
               successes, failures, all_results, progress, total_time, call>>

\* the dict run_batch returns, lat being the sorted latencies
batch_result(k, n, succ, fail, lat, t) ==
    [error |-> "none",
     batch |-> k,
     throughput |-> per_second(succ, t),
     success_rate |-> success_rate(succ, n),
     total_requests |-> n,
     successful |-> succ,
     failed |-> fail,
     avg_latency |-> avg_latency(lat),
     p99_latency |-> p99_latency(lat),
     duration |-> t]

\* run_batch after its finally: the metrics of the batch and the result dict
BatchMetrics ==
    /\ pc = "statistics"
    /\ script = "fixed"
    /\ latencies' = sorted(latencies)
    /\ report' = batch_result(batch_num, num_requests, successes, failures,
                              latencies', total_time)
    /\ pc' = "reported"
    /\ UNCHANGED statFrame
    /\ UNCHANGED <<monVars, sweepVars, parseVars>>

\* run_wave after its gather: the metrics of the wave, the printed success
\* rate (successful / requests_per_wave, unguarded) and the result dict
WaveMetrics ==
    /\ pc = "statistics"
    /\ script = "wave"
    /\ IF num_requests = 0
       THEN /\ report' = [error |-> "ZeroDivisionError"]
            /\ pc' = "raised"
       ELSE /\ report' = [error |-> "none",
                          wave |-> batch_num,
                          throughput |-> per_second(successes, total_time),
                          successful |-> successes,
                          failed |-> num_requests - successes,
                          avg_latency |-> avg_latency(latencies),
                          p99_latency |-> p99_latency(sorted(latencies))]
            /\ pc' = "reported"
    /\ UNCHANGED latencies
    /\ UNCHANGED statFrame
    /\ UNCHANGED <<monVars, sweepVars, parseVars>>

\* run_benchmark_test of enhanced_benchmark.py (latencies.sort()) and of
\* optimized_benchmark.py (latencies = sorted(stats['latencies'])) after
\* monitor.stop(); the resource figures of the dict are the monitor's
Statistics ==
    /\ pc = "statistics"
    /\ script \in {"enhanced", "optimized"}
    /\ latencies' = IF script = "enhanced" THEN sorted(latencies) ELSE latencies
    /\ LET data == sorted(latencies)
       IN report' = [error |-> "none",
                     throughput |-> per_second(num_requests, total_time),
                     success_rate |-> success_rate(successes, num_requests),
                     total_requests |-> num_requests,
                     successful |-> successes,
                     failed |-> failures,
                     latency |-> latency_dict(script, data),
                     percentile |-> [q \in Percentiles |-> get_percentile(data, q)]]
    /\ pc' = "reported"
    /\ UNCHANGED statFrame
    /\ UNCHANGED <<monVars, sweepVars, parseVars>>

\* run_test of run-benchmark.py after its slices
RunTestStatistics ==
    /\ pc = "statistics"
    /\ script = "runtest"
    /\ latencies' = sorted(latencies)
    /\ report' = [error |-> "none",
                  total_requests |-> num_requests,
                  successful_requests |-> successes,
                  success_rate |-> success_rate(successes, num_requests),
                  total_time |-> total_time,
                  throughput |-> per_second(num_requests, total_time),
                  latency |-> latency_dict(script, latencies'),
                  percentile |-> [q \in Percentiles |-> get_percentile(latencies', q)]]
    /\ pc' = "reported"
    /\ UNCHANGED statFrame
    /\ UNCHANGED <<monVars, sweepVars, parseVars>>

NextStats ==
    \/ BatchMetrics
    \/ WaveMetrics
    \/ Statistics
    \/ RunTestStatistics

SpecStats == InitStats /\ [][NextStats]_vars

\* ------------------------------------------- claims on the statistics
\* the element at 0-based index k of the list in ascending order, told from
\* the values alone: fewer than k+1 elements lie below it and at least k+1
\* elements do not lie above it
NearestRank(seq, k) ==
    CHOOSE v \in Range(seq) :
        /\ Cardinality({j \in DOMAIN seq : seq[j] < v}) <= k
        /\ k < Cardinality({j \in DOMAIN seq : seq[j] <= v})

\* min(floor(count * p / 100), count - 1)
RankIndex(count, q) == Min((count * q) \div 100, count - 1)

HasPercentiles == pc = "reported" /\ script \in PercentileScripts

\* C11: get_percentile returns, for every percentile 0..100, the element of
\* the ascending-sorted latencies at index min(floor(count * p / 100),
\* count - 1), and 0 when there is no latency.
C11_NearestRank ==
    HasPercentiles =>
        \A q \in Percentiles :
            report.percentile[q] =
                IF latencies = <<>> THEN 0
                ELSE NearestRank(latencies, RankIndex(Len(latencies), q))

\* C11 witness: percentiles were computed over three or more latencies that
\* were collected out of order, and the median differs from the maximum.
C11_Witness ==
    /\ HasPercentiles
    /\ script = "optimized"
    /\ Len(latencies) >= 3
    /\ latencies[1] > latencies[2]
    /\ report.percentile[50] # report.percentile[100]

\* C12: over a non-empty latency list percentile(0) is the reported min,
\* percentile(100) the reported max, min <= p50 <= p95 <= p99 <= max, and
\* each reported figure is fixed by the collected values whatever their order.
C12_MinMaxOrder ==
    (HasPercentiles /\ latencies # <<>>) =>
        LET k == LatencyScale(script)
            n == Len(latencies)
            l == report.latency
        IN /\ report.percentile[0] * k = l.min
           /\ report.percentile[100] * k = l.max
           /\ l.min <= l.p50 /\ l.p50 <= l.p95 /\ l.p95 <= l.p99 /\ l.p99 <= l.max
           /\ l.min = k * MinSeq(latencies)
           /\ l.max = k * MaxSeq(latencies)
           /\ l.p50 = k * NearestRank(latencies, RankIndex(n, 50))
           /\ l.p95 = k * NearestRank(latencies, RankIndex(n, 95))
           /\ l.p99 = k * NearestRank(latencies, RankIndex(n, 99))

\* C12 witness: run_test reported, over three or more latencies, a minimum
\* below its median.
C12_Witness ==
    /\ HasPercentiles
    /\ script = "runtest"
    /\ Len(latencies) >= 3
    /\ report.latency.min < report.latency.p50
    /\ report.latency.p50 <= report.latency.max

\* C13: the reported throughput is successes / duration, the successful
\* requests and not the attempted ones, and 0 when the duration is <= 0.
C13_ThroughputOfSuccesses ==
    pc = "reported" =>
        RatEq(report.throughput, per_second(successes, total_time))


\* ============================================== analysis across batches
\* SpecAnalysis: what a driver computes from the results of its batches or
\* waves: FixedBenchmark.run_benchmark its overall metrics and degradation
\* check (over all_results), DegradationInvestigator.analyze_degradation its
\* findings (over self.metrics, held in all_results here).  Printing has no
\* state; the approximated overall p99 of run_benchmark (guarded by `if
\* all_latencies`) is not part of the summary record.

\* the findings, by the words of their messages
SIGNIFICANT == "Significant throughput degradation detected"
MEMORY_LEAK == "Memory leak suspected"
CONNECTION_LEAK == "Connection leak"
PORT_EXHAUSTION == "TIME_WAIT accumulation (port exhaustion risk)"
GRADUAL == "Gradual degradation"
SUDDEN == "Sudden degradation"

\* (first - last) / first * 100 of two quotients, first above 0
degradation_pct(first, last) ==
    <<(first[1] * last[2] - last[1] * first[2]) * 100, first[1] * last[2]>>

\* a degradation of 20 % or more taken for significant (a faulty variant of
\* significant)
significant_from_20(pct) == pct[1] >= DegradationPct * pct[2]

\* degradation_pct > 20
significant(pct) == pct[1] > DegradationPct * pct[2]

\* the last entry taken for the mid-run entry (a faulty variant of mid_point)
mid_point_last(n) == n - 1

\* mid_point = len(throughputs) // 2, a 0-based index
mid_point(n) == n \div 2

\* only a mid-run drop above one half taken for gradual (a faulty variant of
\* gradual)
gradual_above_half(first, mid) ==
    degradation_pct(first, mid)[1] > 50 * degradation_pct(first, mid)[2]

\* (first_throughput - mid_throughput) / first_throughput > 0.1
gradual(first, mid) ==
    degradation_pct(first, mid)[1] > GradualDropPct * degradation_pct(first, mid)[2]

\* memory growth never flagged (a faulty variant of memory_leak)
memory_leak_unflagged(results) == FALSE

\* memories[-1] - memories[0] > 100
memory_leak(results) ==
    results[Len(results)].memory_mb - results[1].memory_mb > MemoryGrowthMB

\* monitor_connections failed: the dict holds no 'total'
NoSnapshot == [error |-> "netstat"]

\* total_connections / time_wait_connections: the snapshots of the waves
\* that have one, in wave order
snapshots(results) ==
    LET with == SelectSeq(results, LAMBDA m : "total" \in DOMAIN m.connections_after)
    IN [k \in DOMAIN with |-> with[k].connections_after]

\* total_connections and total_connections[-1] - total_connections[0] > 100
connection_leak(results) ==
    LET c == snapshots(results)
    IN c # <<>> /\ c[Len(c)].total - c[1].total > ConnectionGrowth

\* time_wait_connections and time_wait_connections[-1] > 1000
port_exhaustion(results) ==
    LET c == snapshots(results)
    IN c # <<>> /\ c[Len(c)].time_wait > TimeWaitCount

\* the `issues` list of analyze_degradation
issues_of(results) ==
    LET first == results[1].throughput
        last == results[Len(results)].throughput
        mid == results[mid_point(Len(results)) + 1].throughput
    IN IF significant(degradation_pct(first, last))
       THEN <<SIGNIFICANT>>
            \o (IF memory_leak(results) THEN <<MEMORY_LEAK>> ELSE <<>>)
            \o (IF connection_leak(results) THEN <<CONNECTION_LEAK>> ELSE <<>>)
            \o (IF port_exhaustion(results) THEN <<PORT_EXHAUSTION>> ELSE <<>>)
            \o (IF gradual(first, mid) THEN <<GRADUAL>> ELSE <<SUDDEN>>)
       ELSE <<>>

\* ---- inputs of an analysis
\* throughputs in req/s around the two thresholds, memory in MB, and the
\* connection snapshots a wave may carry
WaveThroughputs == {<<0, 1>>, <<700, 1>>, <<800, 1>>, <<900, 1>>, <<1000, 1>>}
WaveMemories == {100, 200, 250}
WaveSnapshots == {NoSnapshot,
                  [total |-> 0, time_wait |-> 0],
                  [total |-> 50, time_wait |-> 1000],
                  [total |-> 150, time_wait |-> 1001]}

\* the fields of run_wave's dict that the analysis reads
wave_result(t, m, c) == [throughput |-> t, memory_mb |-> m, connections_after |-> c]

\* first and last waves range over every combination; the mid-run wave over
\* every throughput, with or without a snapshot; the other waves are alike
WaveResults ==
    {wave_result(t, m, c) : t \in WaveThroughputs, m \in WaveMemories, c \in WaveSnapshots}
WaveMidResults ==
    {wave_result(t, 100, c) :
        t \in WaveThroughputs, c \in {NoSnapshot, [total |-> 0, time_wait |-> 0]}}
WaveFiller == wave_result(<<1000, 1>>, 100, NoSnapshot)

\* run_batch results of full batches whose successes share one latency
BatchResults ==
    {batch_result(1, BatchSize, succ, BatchSize - succ, [j \in 1..succ |-> l], t) :
        succ \in 0..BatchSize, l \in 1..MaxLatencyMs, t \in 0..MaxDuration}
BatchFiller == batch_result(1, BatchSize, BatchSize, 0, [j \in 1..BatchSize |-> 1], 1)

\* n results: the first, the last, the one at mid_point, and fillers
ResultsOf(n, first, mid, last, filler) ==
    [k \in 1..n |-> IF k = 1 THEN first
                    ELSE IF k = n THEN last
                    ELSE IF k = mid_point(n) + 1 THEN mid
                    ELSE filler]

InitAnalysis ==
    /\ script \in {"fixed", "wave"}
    /\ \E n \in 0..MaxMetrics :
          IF script = "wave"
          THEN \E f \in WaveResults, m \in WaveMidResults, l \in WaveResults :
                  all_results = ResultsOf(n, f, m, l, WaveFiller)
          ELSE \E f \in BatchResults, l \in BatchResults :
                  all_results = [k \in 1..n |->
                      [ResultsOf(n, f, BatchFiller, l, BatchFiller)[k] EXCEPT !.batch = k]]
    /\ num_batches = Len(all_results)
    /\ total_requests = IF script = "fixed" THEN BatchSize * num_batches ELSE 0
    /\ batch_num = num_batches
    /\ pc = "analysis"
    /\ concurrent = 1
    /\ num_requests = 0
    /\ i = 0
    /\ tasks = <<>>
    /\ semaphore = 0
    /\ sessions = {}
    /\ warmup_left = 0
    /\ latencies = <<>>
    /\ successes = 0
    /\ failures = 0
    /\ progress = <<>>
    /\ StatIdle
    /\ MonIdle

analysisFrame == <<script, total_requests, concurrent, num_batches, batch_num,
                   num_requests, i, tasks, semaphore, sessions, warmup_left,
                   latencies, successes, failures, all_results, progress,
                   total_time, call>>

\* the exception a division by zero raises, and where
ZeroDivisionError(at) == [error |-> "ZeroDivisionError", at |-> at]

\* run_benchmark after its batch loop: overall metrics, degradation check,
\* return dict
OverallMetrics ==
    /\ pc = "analysis"
    /\ script = "fixed"
    /\ LET cumulative_time == SumSeq([k \in DOMAIN all_results |-> all_results[k].duration])
           cumulative_requests ==
               SumSeq([k \in DOMAIN all_results |-> all_results[k].total_requests])
           cumulative_successes ==
               SumSeq([k \in DOMAIN all_results |-> all_results[k].successful])
           first_throughput == all_results[1].throughput
           last_throughput == all_results[Len(all_results)].throughput
       IN IF Len(all_results) > 1 /\ first_throughput[1] = 0
          THEN /\ report' = ZeroDivisionError("degradation")
               /\ pc' = "raised"
          ELSE IF cumulative_requests = 0
          THEN /\ report' = ZeroDivisionError("success_rate")
               /\ pc' = "raised"
          ELSE /\ report' =
                    [error |-> "none",
                     degradation |-> IF Len(all_results) > 1
                                     THEN degradation_pct(first_throughput, last_throughput)
                                     ELSE Zero,
                     total_time |-> cumulative_time,
                     throughput |-> per_second(cumulative_successes, cumulative_time),
                     success_rate |-> <<cumulative_successes * 100, cumulative_requests>>,
                     total_requests |-> cumulative_requests,
                     successful |-> cumulative_successes,
                     failed |-> cumulative_requests - cumulative_successes]
               /\ pc' = "reported"
    /\ UNCHANGED analysisFrame
    /\ UNCHANGED <<monVars, sweepVars, parseVars>>

\* analyze_degradation: the 'summary' it saves, or its early return
AnalyzeDegradation ==
    /\ pc = "analysis"
    /\ script = "wave"
    /\ IF Len(all_results) < 2
       THEN /\ report' = [error |-> "none", enough_data |-> FALSE]
            /\ pc' = "reported"
       ELSE LET first_throughput == all_results[1].throughput
                last_throughput == all_results[Len(all_results)].throughput
            IN IF first_throughput[1] = 0
               THEN /\ report' = ZeroDivisionError("degradation_pct")
                    /\ pc' = "raised"
               ELSE /\ report' =
                         [error |-> "none",
                          enough_data |-> TRUE,
                          degradation_pct |-> degradation_pct(first_throughput,
                                                              last_throughput),
                          first_throughput |-> first_throughput,
                          last_throughput |-> last_throughput,
                          issues |-> issues_of(all_results)]
                    /\ pc' = "reported"
    /\ UNCHANGED analysisFrame
    /\ UNCHANGED <<monVars, sweepVars, parseVars>>

NextAnalysis ==
    \/ OverallMetrics
    \/ AnalyzeDegradation

SpecAnalysis == InitAnalysis /\ [][NextAnalysis]_vars

\* --------------------------------------------- claims on the analysis
\* C14: no rate computation divides by zero: for every request count and
\* duration, 0 included, the run-level metrics of run_benchmark are computed
\* without raising, throughput is >= 0 and success_rate lies in [0, 100].
C14_RatesNeverDivideByZero ==
    script = "fixed" =>
        /\ pc = "raised" => report.at # "success_rate"
        /\ pc = "reported" =>
              /\ RatLeq(Zero, report.throughput)
              /\ RatLeq(Zero, report.success_rate)
              /\ RatLeq(report.success_rate, <<100, 1>>)

\* the degradation either driver has computed
ReportedDegradation ==
    IF script = "fixed" THEN report.degradation ELSE report.degradation_pct

\* C17: over two or more results the analysis computes (first.throughput -
\* last.throughput) / first.throughput * 100, takes 0 when first.throughput
\* is 0, and completes without raising.
C17_DegradationComputed ==
    (Len(all_results) >= 2 /\ pc # "analysis") =>
        LET first == all_results[1].throughput
            last == all_results[Len(all_results)].throughput
        IN /\ pc = "reported"
           /\ IF first[1] = 0
              THEN RatEq(ReportedDegradation, Zero)
              ELSE RatEq(ReportedDegradation,
                         <<(first[1] * last[2] - last[1] * first[2]) * 100,
                           first[1] * last[2]>>)

\* analyze_degradation has gone through its diagnosis
Analysed == pc = "reported" /\ script = "wave" /\ Len(all_results) >= 2

Found(issue) == \E k \in DOMAIN report.issues : report.issues[k] = issue

\* first and last wave that carry a connection snapshot
Snapped == {k \in DOMAIN all_results : "total" \in DOMAIN all_results[k].connections_after}
FirstSnapshot ==
    all_results[CHOOSE k \in Snapped : \A j \in Snapped : k <= j].connections_after
LastSnapshot ==
    all_results[CHOOSE k \in Snapped : \A j \in Snapped : k >= j].connections_after

\* the throughput of the first wave has dropped by more than pct percent at
\* wave k (throughputs are quotients with positive denominators)
DroppedBy(k, pct) ==
    LET first == all_results[1].throughput
        at == all_results[k].throughput
    IN (first[1] * at[2] - at[1] * first[2]) * 100 > pct * first[1] * at[2]

\* C18: "significant degradation" is found exactly when degradation_pct > 20;
\* at 20 or below nothing is found; each sub-finding comes only with it and
\* exactly when its threshold holds: memory delta > 100, connection delta
\* > 100 (over the waves that have a snapshot), last TIME_WAIT count > 1000.
C18_Findings ==
    Analysed =>
        LET n == Len(all_results)
            sig == DroppedBy(n, 20)
        IN /\ Found(SIGNIFICANT) <=> sig
           /\ ~sig => report.issues = <<>>
           /\ Found(MEMORY_LEAK) <=>
                 (sig /\ all_results[n].memory_mb - all_results[1].memory_mb > 100)
           /\ Found(CONNECTION_LEAK) <=>
                 (sig /\ Snapped # {} /\ LastSnapshot.total - FirstSnapshot.total > 100)
           /\ Found(PORT_EXHAUSTION) <=>
                 (sig /\ Snapped # {} /\ LastSnapshot.time_wait > 1000)
           /\ Found(GRADUAL) => sig
           /\ Found(SUDDEN) => sig

\* C18 witness: an analysis found the degradation together with the memory
\* leak, the connection leak and the port exhaustion.
C18_Witness ==
    /\ Analysed
    /\ Found(SIGNIFICANT)
    /\ Found(MEMORY_LEAK)
    /\ Found(CONNECTION_LEAK)
    /\ Found(PORT_EXHAUSTION)

\* C19: with "significant degradation" exactly one of "gradual" and "sudden"
\* is found: gradual when the throughput at index len // 2 has dropped by
\* more than 10 % of the first throughput, sudden otherwise.
C19_GradualOrSudden ==
    (Analysed /\ Found(SIGNIFICANT)) =>
        /\ Found(GRADUAL) # Found(SUDDEN)
        /\ Found(GRADUAL) <=> DroppedBy(Len(all_results) \div 2 + 1, 10)
        /\ Cardinality({k \in DOMAIN report.issues :
                           report.issues[k] \in {GRADUAL, SUDDEN}}) = 1

\* C19 witness: over three or more waves the degradation was found sudden:
\* the mid-run wave had lost 10 % or less, the last one more than 20 %.
C19_Witness ==
    /\ Analysed
    /\ Len(all_results) >= 3
    /\ Found(SIGNIFICANT)
    /\ Found(SUDDEN)

\* the run of the example: five results, throughput 1000 req/s first and 700
\* req/s last, memory grown by 150 MB, connections grown by 50
ExampleRun ==
    /\ Analysed
    /\ Len(all_results) = 5
    /\ all_results[1].throughput = <<1000, 1>>
    /\ all_results[5].throughput = <<700, 1>>
    /\ all_results[5].memory_mb - all_results[1].memory_mb = 150
    /\ Snapped # {}
    /\ LastSnapshot.total - FirstSnapshot.total = 50

\* C20 as stated: for the example run the findings are exactly "significant
\* degradation" and "memory leak suspected".
C20_ExampleExactlyTwo ==
    ExampleRun => report.issues = <<SIGNIFICANT, MEMORY_LEAK>>

\* C20 amended: for the example run (last TIME_WAIT count not above 1000)
\* the findings are "significant degradation", "memory leak suspected" and
\* then one of "gradual degradation" and "sudden degradation", gradual when
\* the third result is below 900 req/s; "connection leak" is not among them.
C20_ExampleFindings ==
    ExampleRun =>
        /\ ~Found(CONNECTION_LEAK)
        /\ LastSnapshot.time_wait <= 1000 =>
              report.issues =
                  <<SIGNIFICANT, MEMORY_LEAK,
                    IF all_results[3].throughput[1] < 900 * all_results[3].throughput[2]
                    THEN GRADUAL ELSE SUDDEN>>

\* C20 witness: the example run with a third result of 1000 req/s was
\* analysed, and "sudden degradation" came third.
C20_Witness ==
    /\ ExampleRun
    /\ all_results[3].throughput = <<1000, 1>>
    /\ report.issues = <<SIGNIFICANT, MEMORY_LEAK, SUDDEN>>

\* C21: a run returns its summary whatever its requests did: when every
\* request of every batch has failed (every batch throughput is 0) and there
\* are two or more batches, run_benchmark still returns its summary, with
\* zero metrics, and does not raise.
C21_SummaryWhenAllFail ==
    (/\ script = "fixed"
     /\ pc # "analysis"
     /\ Len(all_results) >= 2
     /\ \A k \in DOMAIN all_results : all_results[k].successful = 0) =>
        /\ pc = "reported"
        /\ report.successful = 0
        /\ RatEq(report.throughput, Zero)
        /\ RatEq(report.success_rate, Zero)

\* C29: over exactly two waves the mid-run entry is the last wave, so a
\* significant degradation is always found gradual and never sudden.
C29_TwoWavesGradual ==
    (Analysed /\ Len(all_results) = 2 /\ Found(SIGNIFICANT)) =>
        /\ Found(GRADUAL)
        /\ ~Found(SUDDEN)

\* C29 witness: an analysis over two waves found a significant, gradual
\* degradation.
C29_Witness ==
    /\ Analysed
    /\ Len(all_results) = 2
    /\ report.issues[1] = SIGNIFICANT
    /\ report.issues[Len(report.issues)] = GRADUAL

\* C25: a run of volume 5 whose requests all fail by timeout (each after the
\* longest latency, which stands for 2000 ms) reports success_rate 0 and
\* throughput 0, and its percentiles are taken over the 5 timeout latencies,
\* so none of them is 0.
C25_AllTimeoutRun ==
    (/\ pc = "reported"
     /\ script \in {"fixed", "optimized"}
     /\ num_requests = 5
     /\ successes = 0
     /\ script = "optimized" => \A j \in DOMAIN latencies : latencies[j] = MaxLatencyMs) =>
        /\ RatEq(report.success_rate, Zero)
        /\ RatEq(report.throughput, Zero)
        /\ IF script = "fixed"
           THEN report.p99_latency = MaxLatencyMs
           ELSE /\ report.latency.p50 = MaxLatencyMs
                /\ report.latency.p95 = MaxLatencyMs
                /\ report.latency.p99 = MaxLatencyMs

\* C24: during the whole optimized run with bound C = concurrent, warm-up
\* included, the target never has more than C requests in flight.
C24_OptimizedInflightBound ==
    script = "optimized" => Inflight <= concurrent

\* C26: in the optimized run no update of the shared stats is lost, whatever
\* the order in which the requests complete: every completed request of the
\* measured run has one latency and one count, so that once all tasks have
\* finished len(latencies) = successes + failures = num_requests; the
\* warm-up requests leave the three counters untouched.
C26_NoLostUpdate ==
    script = "optimized" =>
        /\ Len(latencies) = successes + failures
        /\ pc \in {"setup", "aux", "warmup", "batch_start"} => successes + failures = 0
        /\ pc = "gather" => successes + failures = progress[batch_num].completed
        /\ pc \in {"finally", "done"} /\ batch_num >= 1 => successes + failures = num_requests

\* an optimized run has returned after its warm-up requests completed and its
\* measured requests ended in successes and failures
C26_Witness ==
    /\ script = "optimized"
    /\ pc = "done"
    /\ num_requests = MaxRequests
    /\ successes >= 1
    /\ failures >= 1
    /\ Len(latencies) = MaxRequests

\* C27: in the optimized CPUMonitor, whenever stop() computes its summary
\* cpu_samples and memory_samples have the same length, so stop() never
\* divides by the length of an empty sequence, also when join(timeout=1)
\* has returned while a sample was in progress.
C27_SamplesInStepAtStop ==
    (monitor_kind = "optimized" /\ StopComputing) =>
        /\ Len(cpu_samples) = Len(memory_samples)
        /\ summary.status # "error"

\* the requests of the slice in progress that have completed with success
CompletedSuccesses ==
    Cardinality({t \in DOMAIN tasks : tasks[t].st = "done" /\ tasks[t].res.success})

\* the enhanced run leaves a slice whose requests have not all completed:
\* the slice has timed out
SliceTimedOut ==
    /\ script = "enhanced"
    /\ pc = "gather"
    /\ ~AllDone
    /\ pc' \in {"gather", "finally"}
    /\ i' # i \/ pc' = "finally"

\* C23: when a batch (a slice of the enhanced run) times out, its requests
\* still in flight are recorded as failures, its requests that had already
\* completed keep their outcome, and the following batches are dispatched.
C23_TimeoutKeepsCompleted ==
    [][SliceTimedOut =>
          /\ successes' = successes + CompletedSuccesses
          /\ failures' = failures + (Len(tasks) - CompletedSuccesses)
          /\ i + Len(tasks) < num_requests => pc' = "gather" /\ tasks' # <<>>]_vars

\* C22: a batch-level error (the batch's client session cannot be created,
\* or the batch times out) ends that batch only: it is counted against that
\* batch and the driver runs every later batch, so a run that has stopped
\* has a record for each of its batches (fixed) and an outcome for each of
\* its requests (enhanced).
C22_BatchErrorAbortsOnlyTheBatch ==
    /\ (script = "fixed" /\ pc \in {"done", "raised", "no_session"}) =>
          Len(all_results) = num_batches
    /\ (script = "enhanced" /\ pc \in {"done", "raised", "no_session"}) =>
          /\ Len(all_results) = 1
          /\ all_results[1].successful + all_results[1].failed = total_requests


\* ================================================== configuration sweep
\* SpecSweep: main()'s loop over the configurations.  Each test calls
\* run_benchmark_test, which builds a CPUMonitor, starts it, runs its
\* requests and calls stop(); main catches an Exception of the test and
\* goes on with the next one.  The monitor variables are those of the
\* current test's monitor; the threads of the earlier monitors, which
\* nothing refers to any more, are kept in old_threads.

\* tests of one sweep
MaxTests == 2

\* the thread of the monitor that the new test leaves behind
LeftBehind ==
    IF thread \in {"none", "exited"} THEN <<>>
    ELSE <<[monitoring |-> monitoring, alive |-> TRUE]>>

InitSweep ==
    /\ monitor_kind \in MonitorKinds
    /\ script = monitor_kind
    /\ total_requests = 0
    /\ concurrent = 1
    /\ num_batches = 0
    /\ pc = "next_test"
    /\ batch_num = 0
    /\ num_requests = 0
    /\ i = 0
    /\ tasks = <<>>
    /\ semaphore = 0
    /\ sessions = {}
    /\ warmup_left = 0
    /\ latencies = <<>>
    /\ successes = 0
    /\ failures = 0
    /\ all_results = <<>>
    /\ progress = <<>>
    /\ MonInit
    /\ StatIdle
    /\ SweepIdle
    /\ ParseIdle

sweepFrame == <<script, total_requests, concurrent, num_batches, batch_num,
                num_requests, i, tasks, semaphore, sessions, warmup_left,
                latencies, successes, failures, all_results, progress, statVars,
                parseVars>>

\* run_benchmark_test is called: monitor = CPUMonitor(...); monitor.start()
TestStarts ==
    /\ pc = "next_test"
    /\ test_number < MaxTests
    /\ test_number' = test_number + 1
    /\ old_threads' = old_threads \o LeftBehind
    /\ monitoring' = TRUE
    /\ thread' = IF monitor_kind = "optimized" THEN "init" ELSE "loop"
    /\ cpu_samples' = <<>>
    /\ memory_samples' = <<>>
    /\ sample' = <<0, 0>>
    /\ stop_pc' = "running"
    /\ summary' = NoSummary
    /\ mon_hist' = NoHistory
    /\ pc' = "testing"
    /\ UNCHANGED <<monitor_kind, sweepFrame>>

\* an exception is raised between monitor.start() and monitor.stop() (a
\* worker or session that cannot be created, an error in the run): no
\* finally stops the monitor, main's `except Exception` prints and continues
TestRaises ==
    /\ pc = "testing"
    /\ stop_pc = "running"
    /\ pc' = "next_test"
    /\ UNCHANGED <<monVars, sweepVars, sweepFrame>>

\* the requests are over: cpu_stats = monitor.stop()
TestStops ==
    /\ pc = "testing"
    /\ stop_pc = "running"
    /\ MonStopBegin
    /\ UNCHANGED <<drvVars, statVars, sweepVars, parseVars>>

\* stop() has returned its summary or raised; the test returns to main,
\* or its exception is caught there
TestReturns ==
    /\ pc = "testing"
    /\ stop_pc = "returned"
    /\ pc' = "next_test"
    /\ UNCHANGED <<monVars, sweepVars, sweepFrame>>

\* the thread of an earlier monitor finds `self.monitoring` false at its
\* loop test and ends; one whose monitor was never stopped samples on
OldThreadExits(k) ==
    /\ old_threads[k].alive
    /\ ~old_threads[k].monitoring
    /\ old_threads' = [old_threads EXCEPT ![k].alive = FALSE]
    /\ UNCHANGED <<drvVars, monVars, statVars, test_number, parseVars>>

NextSweep ==
    \/ TestStarts
    \/ TestRaises
    \/ TestStops
    \/ TestReturns
    \/ MonJoinReturn /\ UNCHANGED <<drvVars, statVars, sweepVars, parseVars>>
    \/ MonStopCheck /\ UNCHANGED <<drvVars, statVars, sweepVars, parseVars>>
    \/ MonStopCpu /\ UNCHANGED <<drvVars, statVars, sweepVars, parseVars>>
    \/ MonStopMemory /\ UNCHANGED <<drvVars, statVars, sweepVars, parseVars>>
    \/ ThreadInit /\ UNCHANGED <<drvVars, statVars, sweepVars, parseVars>>
    \/ ThreadLoop /\ UNCHANGED <<drvVars, statVars, sweepVars, parseVars>>
    \/ ThreadRead /\ UNCHANGED <<drvVars, statVars, sweepVars, parseVars>>
    \/ ThreadAppendCpu /\ UNCHANGED <<drvVars, statVars, sweepVars, parseVars>>
    \/ ThreadAppendMemory /\ UNCHANGED <<drvVars, statVars, sweepVars, parseVars>>
    \/ ThreadWake /\ UNCHANGED <<drvVars, statVars, sweepVars, parseVars>>
    \/ ThreadFails /\ UNCHANGED <<drvVars, statVars, sweepVars, parseVars>>
    \/ \E k \in DOMAIN old_threads : OldThreadExits(k)

SpecSweep == InitSweep /\ [][NextSweep]_vars

\* sampling threads that have not ended
ActiveThreads ==
    (IF thread \in {"none", "exited"} THEN 0 ELSE 1)
    + Cardinality({k \in DOMAIN old_threads : old_threads[k].alive})

\* C28: a monitor started by run_benchmark_test has been stopped whenever
\* that call has been left, by return or by exception, and across the tests
\* of a sweep at most one sampling thread is active at any time.
C28_MonitorStoppedOnEveryExit ==
    /\ pc = "next_test" => ~monitoring
    /\ ActiveThreads <= 1


\* ================================================ parse_benchmark_output
\* SpecParse: scripts/benchmark-wrapper.py reads the text output of the
\* benchmark line by line.  A line is taken by what the parser finds in it:
\* "Testing with N concurrent", "Throughput: V req/s", a "Latency" line, a
\* separator ("---" or "SUMMARY"), or anything else.

\* lines of one output
MaxLines == 4

Line(kind, value) == [kind |-> kind, value |-> value]
LineKinds ==
    {Line("testing", n) : n \in 1..MaxConcurrent}
    \cup {Line("throughput", v) : v \in 1..MaxLat}
    \cup {Line("latency", 0), Line("separator", 0), Line("other", 0)}

RECURSIVE Outputs(_)
Outputs(n) ==
    IF n = 0 THEN {<<>>}
    ELSE {<<>>} \cup {<<l>> \o rest : l \in LineKinds, rest \in Outputs(n - 1)}

InitParse ==
    /\ script = "fixed"
    /\ total_requests = 0
    /\ concurrent = 1
    /\ num_batches = 0
    /\ pc = "parsing"
    /\ batch_num = 0
    /\ num_requests = 0
    /\ i = 0
    /\ tasks = <<>>
    /\ semaphore = 0
    /\ sessions = {}
    /\ warmup_left = 0
    /\ latencies = <<>>
    /\ successes = 0
    /\ failures = 0
    /\ all_results = <<>>
    /\ progress = <<>>
    /\ MonInit
    /\ monitor_kind = "enhanced"
    /\ SweepIdle
    /\ StatIdle
    /\ lines \in Outputs(MaxLines)
    /\ line_no = 1
    /\ current_test = None
    /\ parsed = <<>>

parseFrame == <<script, total_requests, concurrent, num_batches, batch_num,
                num_requests, i, tasks, semaphore, sessions, warmup_left,
                latencies, successes, failures, all_results, progress,
                monVars, statVars, sweepVars>>

\* current_test = {'configuration': ..., 'concurrent': int(match.group(1))}
new_test(cur, n) ==
    [open |-> TRUE, concurrent |-> n, has_throughput |-> FALSE,
     throughput |-> 0, has_latency |-> FALSE]

\* `current_test and 'throughput' in current_test`
complete(cur) == cur.open /\ cur.has_throughput

\* one pass of `for line in lines`: the if / elif chain
ParseLine ==
    /\ pc = "parsing"
    /\ line_no <= Len(lines)
    /\ LET line == lines[line_no]
       IN CASE line.kind = "testing" ->
                 /\ current_test' = new_test(current_test, line.value)
                 /\ parsed' = parsed
            [] line.kind = "throughput" /\ current_test.open ->
                 /\ current_test' = [current_test EXCEPT !.has_throughput = TRUE,
                                                         !.throughput = line.value]
                 /\ parsed' = parsed
            [] line.kind = "latency" /\ current_test.open ->
                 /\ current_test' = [current_test EXCEPT !.has_latency = TRUE]
                 /\ parsed' = parsed
            [] line.kind = "separator" /\ complete(current_test) ->
                 /\ parsed' = Append(parsed, current_test)
                 /\ current_test' = None
            [] OTHER ->
                 /\ UNCHANGED <<current_test, parsed>>
    /\ line_no' = line_no + 1
    /\ UNCHANGED <<lines, pc>>
    /\ UNCHANGED parseFrame

\* after the loop: the last test is added if it has a throughput, and the
\* records are returned
ParseEnd ==
    /\ pc = "parsing"
    /\ line_no = Len(lines) + 1
    /\ parsed' = IF complete(current_test) THEN Append(parsed, current_test)
                 ELSE parsed
    /\ pc' = "parsed"
    /\ UNCHANGED <<lines, line_no, current_test>>
    /\ UNCHANGED parseFrame

NextParse ==
    \/ ParseLine
    \/ ParseEnd

SpecParse == InitParse /\ [][NextParse]_vars

\* the blocks of an output that contain a throughput line, by their N and in
\* input order: a block runs from its "Testing with" line to the next one
RECURSIVE BlocksWithThroughput(_, _, _)
BlocksWithThroughput(ls, cur, has) ==
    LET closed == IF cur # 0 /\ has THEN <<cur>> ELSE <<>>
    IN IF ls = <<>> THEN closed
       ELSE CASE Head(ls).kind = "testing" ->
                   closed \o BlocksWithThroughput(Tail(ls), Head(ls).value, FALSE)
              [] Head(ls).kind = "throughput" ->
                   BlocksWithThroughput(Tail(ls), cur, has \/ cur # 0)
              [] OTHER -> BlocksWithThroughput(Tail(ls), cur, has)

\* C30: parse_benchmark_output emits one record for every "Testing with N
\* concurrent" block that contains a Throughput line, once and in input
\* order, wherever the separator lines stand, and none for a block without
\* a throughput.
C30_OneRecordPerBlock ==
    pc = "parsed" =>
        [k \in DOMAIN parsed |-> parsed[k].concurrent]
            = BlocksWithThroughput(lines, 0, FALSE)

=============================================================================
